---- MODULE Spec2Model ----
(***************************************************************************)
(* Remix contacts tutorial: the root route (app/root.tsx: create action,   *)
(* root loader, the App component with its search form) and the edit route *)
(* (app/routes/contacts.$contactId_.edit.tsx: update action, contact       *)
(* loader, edit form).                                                     *)
(*                                                                         *)
(* Strings are sequences of one-character strings; the empty string is     *)
(* <<>>.  null / undefined is the value Null.  A contact identifier is the *)
(* one-element sequence <<n>>.                                             *)
(***************************************************************************)
EXTENDS Integers, Sequences, FiniteSets, TLC

VARIABLES
    store,                  \* the record store of app/data: id -> Contact
    location,               \* router state.location: the committed URL
    loaderData,             \* root useLoaderData(): [contacts, q]
    leaf,                   \* outcome of the matched child route's loader
    navigation,             \* useNavigation()
    isRevalidationRequired, \* router flag: a submission started since the last commit
    field,                  \* value shown by <input id="q">; Null when App is not mounted
    history,                \* the browser's session history (URLs)
    idx,                    \* the browser's current history entry
    dirty,                  \* history variable: a keystroke changed the input since it was last set
    typing,                 \* history variable: a run of keystrokes begun with q absent
    preSearch,              \* history variable: the browser's entry when that run began
    last                    \* the latest direct invocation of a route handler and its outcome

vars == <<store, location, loaderData, leaf, navigation, isRevalidationRequired,
          field, history, idx, dirty, typing, preSearch, last>>

clientVars == <<location, loaderData, leaf, navigation, isRevalidationRequired,
                field, history, idx, dirty, typing, preSearch>>

-----------------------------------------------------------------------------
(* Bounds *)

MaxContacts == 1    \* contacts the store may hold
MaxHistory == 2     \* entries of the session history

-----------------------------------------------------------------------------
(* Strings *)

Null == <<"null">>

Empty == <<>>

Lower(c) == CASE c = "A" -> "a" [] c = "B" -> "b" [] c = "C" -> "c" [] OTHER -> c

ToLowerCase(s) == [i \in 1..Len(s) |-> Lower(s[i])]

Includes(s, t) ==
    \E i \in 0..(Len(s) - Len(t)) : SubSeq(s, i + 1, i + Len(t)) = t

Truthy(s) == s # Null /\ s # Empty

\* The texts the user types into the search input: the prefixes of "ab".
SearchWord == <<"a", "b">>

Texts == {SubSeq(SearchWord, 1, n) : n \in 0..Len(SearchWord)}

-----------------------------------------------------------------------------
(* URLs, query strings and form data *)

\* URLSearchParams / FormData: a sequence of [k, v] entries.
RECURSIVE SearchGet(_, _)
SearchGet(search, name) ==
    IF search = <<>> THEN Null
    ELSE IF Head(search).k = name THEN Head(search).v
    ELSE SearchGet(Tail(search), name)

SearchHas(search, name) == \E i \in 1..Len(search) : search[i].k = name

\* Object.fromEntries: the last entry of a key wins.
FromEntries(entries) ==
    [key \in {entries[i].k : i \in 1..Len(entries)} |->
        LET at == {i \in 1..Len(entries) : entries[i].k = key}
        IN  entries[CHOOSE i \in at : \A j \in at : j <= i].v]

IndexPath == [view |-> "index", id |-> Empty]

DetailPath(id) == [view |-> "detail", id |-> id]

EditPath(id) == [view |-> "edit", id |-> id]

Url(path, search) == [path |-> path, search |-> search]

\* A GET form holding the single input named q serializes to ?q=<text>.
SearchOf(text) == <<[k |-> "q", v |-> text]>>

\* Route params of the URL as matched by contacts/:contactId and contacts/:contactId/edit.
ParamsOf(path) == [contactId |-> path.id]

NoParams == [key \in {} |-> Empty]

ParamTruthy(params, name) == name \in DOMAIN params /\ params[name] # Empty

-----------------------------------------------------------------------------
(* The record store (app/data) *)

Id(n) == <<n>>

FieldNames == {"first", "last", "twitter", "avatar", "notes"}

EmptyContact(id) ==
    [id |-> id, first |-> Null, last |-> Null, twitter |-> Null,
     avatar |-> Null, notes |-> Null, favorite |-> FALSE]

Count(s) == Cardinality(DOMAIN s)

Listing(s) == [i \in 1..Count(s) |-> s[Id(i)]]

NameMatches(name, query) ==
    name # Null /\ Includes(ToLowerCase(name), ToLowerCase(query))

Matches(contact, query) ==
    NameMatches(contact.first, query) \/ NameMatches(contact.last, query)

getContacts(s, query) ==
    IF Truthy(query)
    THEN SelectSeq(Listing(s), LAMBDA contact : Matches(contact, query))
    ELSE Listing(s)

\* Contact or absent: the set holding the record, or the empty set.
getContact(s, id) == IF id \in DOMAIN s THEN {s[id]} ELSE {}

createEmptyContact(s) ==
    LET contact == EmptyContact(Id(Count(s) + 1))
    IN  [contact |-> contact,
         store |-> [id \in DOMAIN s \cup {contact.id} |->
                       IF id \in DOMAIN s THEN s[id] ELSE contact]]

updateContact(s, id, updates) ==
    IF id \notin DOMAIN s
    THEN [ok |-> FALSE, store |-> s]
    ELSE [ok |-> TRUE,
          store |-> [s EXCEPT ![id] =
              [key \in DOMAIN s[id] \cup DOMAIN updates |->
                  IF key \in DOMAIN updates THEN updates[key] ELSE s[id][key]]]]

-----------------------------------------------------------------------------
(* Route handlers *)

NotFoundStatus == 404

rootActionToDetail(s) ==
    LET created == createEmptyContact(s)
    IN  [kind |-> "redirect", to |-> {Url(DetailPath(created.contact.id), <<>>)},
         store |-> created.store]

\* root.tsx action
rootAction(s) ==
    LET created == createEmptyContact(s)
    IN  [kind |-> "redirect", to |-> {Url(EditPath(created.contact.id), <<>>)},
         store |-> created.store]

rootLoaderUnfiltered(s, url) ==
    LET q == SearchGet(url.search, "q")
        contacts == getContacts(s, Null)
    IN  [contacts |-> contacts, q |-> q]

rootLoaderLowercased(s, url) ==
    LET q == ToLowerCase(SearchGet(url.search, "q"))
        contacts == getContacts(s, q)
    IN  [contacts |-> contacts, q |-> q]

rootLoaderEchoOrEmpty(s, url) ==
    LET q == SearchGet(url.search, "q")
        contacts == getContacts(s, q)
    IN  [contacts |-> contacts, q |-> IF q = Null THEN Empty ELSE q]

\* root.tsx loader
rootLoader(s, url) ==
    LET q == SearchGet(url.search, "q")
        contacts == getContacts(s, q)
    IN  [contacts |-> contacts, q |-> q]

editActionFullReplace(s, params, formData) ==
    IF ~ParamTruthy(params, "contactId")
    THEN [kind |-> "invariant", to |-> {}, store |-> s]
    ELSE LET entries == FromEntries(formData)
             updates == [key \in FieldNames |->
                            IF key \in DOMAIN entries THEN entries[key] ELSE Empty]
             updated == updateContact(s, params.contactId, updates)
         IN  IF updated.ok
             THEN [kind |-> "redirect",
                   to |-> {Url(DetailPath(params.contactId), <<>>)},
                   store |-> updated.store]
             ELSE [kind |-> "error", to |-> {}, store |-> s]

editActionUnchecked(s, params, formData) ==
    LET contactId == IF "contactId" \in DOMAIN params THEN params.contactId ELSE Empty
        updates == FromEntries(formData)
        updated == updateContact(s, contactId, updates)
    IN  IF updated.ok
        THEN [kind |-> "redirect", to |-> {Url(DetailPath(contactId), <<>>)},
              store |-> updated.store]
        ELSE [kind |-> "error", to |-> {}, store |-> s]

\* contacts.$contactId_.edit.tsx action
editAction(s, params, formData) ==
    IF ~ParamTruthy(params, "contactId")
    THEN [kind |-> "invariant", to |-> {}, store |-> s]
    ELSE LET updates == FromEntries(formData)
             updated == updateContact(s, params.contactId, updates)
         IN  IF updated.ok
             THEN [kind |-> "redirect",
                   to |-> {Url(DetailPath(params.contactId), <<>>)},
                   store |-> updated.store]
             ELSE [kind |-> "error", to |-> {}, store |-> s]

editLoaderUnchecked(s, params) ==
    IF ~ParamTruthy(params, "contactId")
    THEN [kind |-> "invariant", status |-> {}, contact |-> {}]
    ELSE [kind |-> "data", status |-> {}, contact |-> getContact(s, params.contactId)]

\* contacts.$contactId_.edit.tsx loader
editLoader(s, params) ==
    IF ~ParamTruthy(params, "contactId")
    THEN [kind |-> "invariant", status |-> {}, contact |-> {}]
    ELSE LET contact == getContact(s, params.contactId)
         IN  IF contact = {}
             THEN [kind |-> "response", status |-> {NotFoundStatus}, contact |-> {}]
             ELSE [kind |-> "data", status |-> {}, contact |-> contact]

\* contacts.$contactId.tsx loader (the detail view)
detailLoader(s, params) ==
    LET contact == getContact(s, params.contactId)
    IN  IF contact = {}
        THEN [kind |-> "response", status |-> {NotFoundStatus}, contact |-> {}]
        ELSE [kind |-> "data", status |-> {}, contact |-> contact]

-----------------------------------------------------------------------------
(* The client: router state, session history and the App component *)

Only(set) == CHOOSE x \in set : TRUE

Idle == [state |-> "idle", location |-> {}, formData |-> <<>>, historyAction |-> "NONE"]

Loading(url, historyAction) ==
    [state |-> "loading", location |-> {url}, formData |-> <<>>,
     historyAction |-> historyAction]

Submitting(url, formData) ==
    [state |-> "submitting", location |-> {url}, formData |-> formData,
     historyAction |-> "NONE"]

\* The loader of the child route matched by the URL.
leafLoader(s, url) ==
    CASE url.path.view = "index" -> [kind |-> "none", status |-> {}, contact |-> {}]
      [] url.path.view = "detail" -> detailLoader(s, ParamsOf(url.path))
      [] url.path.view = "edit" -> editLoader(s, ParamsOf(url.path))

\* The action of the route a POST to the URL reaches.
routeAction(s, url, formData) ==
    IF url.path.view = "edit"
    THEN editAction(s, ParamsOf(url.path), formData)
    ELSE rootAction(s)

\* A thrown response reaches the root error boundary, which renders instead of App.
Mounted(leafData) == leafData.kind \in {"none", "data"}

\* A variant of searching that looks at the value of q instead of its presence.
searchingForText ==
    /\ navigation.location # {}
    /\ Truthy(SearchGet(Only(navigation.location).search, "q"))

\* root.tsx: const searching = navigation.location && ...has("q")
searching ==
    navigation.location # {} /\ SearchHas(Only(navigation.location).search, "q")

\* root.tsx: <input id="q" className={searching ? "loading" : ""} ...>
searchFieldClassName == IF searching THEN "loading" ELSE ""

\* root.tsx: <div id="search-spinner" hidden={!searching} />
spinnerHidden == ~searching

\* A variant of detailClassName that marks the pane during a submission as well.
detailClassNameWhilePending ==
    IF navigation.state # "idle" /\ ~searching THEN "loading" ELSE ""

\* root.tsx: <div className={navigation.state === "loading" && !searching ? ...} id="detail">
detailClassName ==
    IF navigation.state = "loading" /\ ~searching THEN "loading" ELSE ""

\* q || ""
OrEmpty(q) == IF Truthy(q) THEN q ELSE Empty

searchFieldValueNoEffect(wasMounted, mounted, oldQ, newQ, oldValue) ==
    IF ~mounted THEN Null
    ELSE IF ~wasMounted THEN OrEmpty(newQ)
    ELSE oldValue

\* root.tsx: useEffect(..., [q]) and defaultValue on mount
searchFieldValue(wasMounted, mounted, oldQ, newQ, oldValue) ==
    IF ~mounted THEN Null
    ELSE IF ~wasMounted \/ newQ # oldQ THEN OrEmpty(newQ)
    ELSE oldValue

\* The router re-runs the root loader (the route stays matched, no shouldRevalidate export).
shouldRevalidate(required, currentUrl, nextUrl) ==
    \/ required
    \/ currentUrl = nextUrl
    \/ currentUrl.search # nextUrl.search

\* A request already sent when its navigation is superseded may still be served; the
\* server serves it before the requests sent after it.
SupersededStores ==
    IF navigation.state = "submitting"
    THEN LET served == routeAction(store, Only(navigation.location),
                                   navigation.formData).store
         IN  {store} \cup (IF Count(served) <= MaxContacts THEN {served} ELSE {})
    ELSE {store}

\* Links and redirects push, unless they lead to the current URL.
defaultHistoryAction(url) == IF url = location THEN "REPLACE" ELSE "PUSH"

\* history.pushState: forward entries are dropped; so is the oldest entry of a full history.
pushState(entries, at, url) ==
    LET pushed == Append(SubSeq(entries, 1, at), url)
    IN  IF Len(pushed) > MaxHistory THEN Tail(pushed) ELSE pushed

\* A variant of startNavigation that lets the superseded navigation commit its URL.
startNavigationCommittingPending(nav) ==
    /\ navigation' = nav
    /\ store' \in SupersededStores
    /\ isRevalidationRequired' = (isRevalidationRequired \/ nav.state = "submitting")
    /\ location' = IF navigation.state = "loading"
                   THEN Only(navigation.location)
                   ELSE location
    /\ UNCHANGED <<loaderData, leaf, last>>

startNavigation(nav) ==
    /\ navigation' = nav
    /\ store' \in SupersededStores
    /\ isRevalidationRequired' = (isRevalidationRequired \/ nav.state = "submitting")
    /\ UNCHANGED <<location, loaderData, leaf, last>>

\* The sidebar contacts rendered by App.
SidebarIds == {loaderData.contacts[i].id : i \in 1..Len(loaderData.contacts)}

-----------------------------------------------------------------------------
(* Initial state: a fresh session on "/" over an empty store *)

NoStore == [id \in {} |-> EmptyContact(id)]

NoCall == [op |-> "none", url |-> {}, params |-> NoParams, formData |-> <<>>,
           before |-> NoStore, result |-> {}]

\* A document request: the server runs the loaders and App mounts on their data.
document(s, url) ==
    /\ location' = url
    /\ loaderData' = rootLoader(s, url)
    /\ leaf' = leafLoader(s, url)
    /\ navigation' = Idle
    /\ isRevalidationRequired' = FALSE
    /\ field' = searchFieldValue(FALSE, Mounted(leafLoader(s, url)), Null,
                                 rootLoader(s, url).q, Null)
    /\ history' = <<url>>
    /\ idx' = 1
    /\ dirty' = FALSE
    /\ typing' = "off"
    /\ preSearch' = {}

Init ==
    /\ store = NoStore
    /\ location = Url(IndexPath, <<>>)
    /\ loaderData = rootLoader(NoStore, Url(IndexPath, <<>>))
    /\ leaf = leafLoader(NoStore, Url(IndexPath, <<>>))
    /\ navigation = Idle
    /\ isRevalidationRequired = FALSE
    /\ field = Empty
    /\ history = <<Url(IndexPath, <<>>)>>
    /\ idx = 1
    /\ dirty = FALSE
    /\ typing = "off"
    /\ preSearch = {}
    /\ last = NoCall

-----------------------------------------------------------------------------
(* User input *)

\* What the user fills into the edit form's name inputs.
FormFills == {[first |-> <<"A">>, last |-> <<"c", "A", "B">>]}

\* The edit form's entries: every named input, untouched ones at their defaultValue.
editFormData(contact, fill) ==
    <<[k |-> "first", v |-> fill.first],
      [k |-> "last", v |-> fill.last],
      [k |-> "twitter", v |-> OrEmpty(contact.twitter)],
      [k |-> "avatar", v |-> OrEmpty(contact.avatar)],
      [k |-> "notes", v |-> OrEmpty(contact.notes)]>>

\* URLs typed into the address bar.
OpenableUrls ==
    {Url(IndexPath, <<>>)}
    \cup {Url(IndexPath, SearchOf(t)) : t \in Texts}
    \cup {Url(DetailPath(Id(n)), <<>>) : n \in 1..MaxContacts}
    \cup {Url(EditPath(Id(n)), <<>>) : n \in 1..MaxContacts}

-----------------------------------------------------------------------------
(* Client actions *)

replaceAlways(q) == TRUE

replaceNever(q) == FALSE

replaceWhenTruthy(q) == Truthy(q)

\* root.tsx onChange: const isFirstSearch = q === null; submit(..., {replace: !isFirstSearch})
replace(q) ==
    LET isFirstSearch == q = Null
    IN  ~isFirstSearch

\* root.tsx: <Form id="search-form" onChange=...>: a keystroke in the search input
Keystroke(text) ==
    /\ field # Null
    /\ text # field
    /\ startNavigation(Loading(Url(IndexPath, SearchOf(text)),
                               IF replace(loaderData.q) THEN "REPLACE" ELSE "PUSH"))
    /\ field' = text
    /\ dirty' = TRUE
    /\ typing' = IF typing = "off" /\ loaderData.q = Null THEN "pending" ELSE typing
    /\ preSearch' = IF typing = "off" /\ loaderData.q = Null
                    THEN {[entry |-> history[idx], atRest |-> navigation.state = "idle"]}
                    ELSE preSearch
    /\ UNCHANGED <<history, idx>>

\* root.tsx: <NavLink to={`contacts/${contact.id}`}>
ClickContact(id) ==
    /\ field # Null
    /\ id \in SidebarIds
    /\ LET url == Url(DetailPath(id), <<>>)
       IN  startNavigation(Loading(url, defaultHistoryAction(url)))
    /\ typing' = "off"
    /\ preSearch' = {}
    /\ UNCHANGED <<field, history, idx, dirty>>

\* root.tsx: <Form method="post"><button type="submit">New</button></Form>
ClickNew ==
    /\ field # Null
    /\ startNavigation(Submitting(Url(IndexPath, location.search), <<>>))
    /\ typing' = "off"
    /\ preSearch' = {}
    /\ UNCHANGED <<field, history, idx, dirty>>

\* contacts.$contactId_.edit.tsx: <Form id="contact-form" method="post"> ... Save
ClickSave(fill) ==
    /\ field # Null
    /\ location.path.view = "edit"
    /\ leaf.kind = "data"
    /\ startNavigation(Submitting(Url(location.path, location.search),
                                  editFormData(Only(leaf.contact), fill)))
    /\ typing' = "off"
    /\ preSearch' = {}
    /\ UNCHANGED <<field, history, idx, dirty>>

\* The browser's back / forward buttons: the entry changes at once, the router follows.
traverse(delta) ==
    /\ idx + delta \in 1..Len(history)
    /\ idx' = idx + delta
    /\ startNavigation(Loading(history[idx + delta], "POP"))
    /\ typing' = "off"
    /\ preSearch' = {}
    /\ UNCHANGED <<field, history, dirty>>

Back == traverse(-1)

Forward == traverse(1)

\* contacts.$contactId_.edit.tsx: <button onClick={() => navigate(-1)}>Cancel</button>
ClickCancel ==
    /\ field # Null
    /\ location.path.view = "edit"
    /\ leaf.kind = "data"
    /\ traverse(-1)

\* The user opens a URL in a fresh session (or reloads): a document request.
OpenUrl(url) ==
    /\ store' \in SupersededStores
    /\ document(store', url)
    /\ UNCHANGED last

\* The pending submission's action has run; the router follows its redirect.  (The
\* forms post to the root action, which always redirects, and to the edit action of
\* a contact the edit view has loaded; nothing removes contacts.)
ActionDone ==
    /\ navigation.state = "submitting"
    /\ LET result == routeAction(store, Only(navigation.location), navigation.formData)
       IN  /\ result.kind = "redirect"
           /\ Count(result.store) <= MaxContacts
           /\ store' = result.store
           /\ navigation' = Loading(Only(result.to), defaultHistoryAction(Only(result.to)))
    /\ typing' = "off"
    /\ preSearch' = {}
    /\ UNCHANGED <<location, loaderData, leaf, isRevalidationRequired, field,
                   history, idx, dirty, last>>

\* The pending navigation's loaders have run; the router commits their data.
CompleteNavigation ==
    /\ navigation.state = "loading"
    /\ LET url == Only(navigation.location)
           root == IF shouldRevalidate(isRevalidationRequired, location, url)
                   THEN rootLoader(store, url)
                   ELSE loaderData
           child == leafLoader(store, url)
       IN  /\ location' = url
           /\ loaderData' = root
           /\ leaf' = child
           /\ field' = searchFieldValue(Mounted(leaf), Mounted(child),
                                        loaderData.q, root.q, field)
           /\ dirty' = (dirty /\ Mounted(leaf) /\ Mounted(child) /\ root.q = loaderData.q)
           /\ CASE navigation.historyAction = "PUSH" ->
                     /\ history' = pushState(history, idx, url)
                     /\ idx' = Len(pushState(history, idx, url))
                [] navigation.historyAction = "REPLACE" ->
                     /\ history' = [history EXCEPT ![idx] = url]
                     /\ idx' = idx
                [] OTHER ->
                     UNCHANGED <<history, idx>>
    /\ navigation' = Idle
    /\ isRevalidationRequired' = FALSE
    /\ typing' = IF typing = "pending" THEN "pushed" ELSE typing
    /\ UNCHANGED <<store, preSearch, last>>

Next ==
    \/ \E text \in Texts : Keystroke(text)
    \/ \E n \in 1..MaxContacts : ClickContact(Id(n))
    \/ ClickNew
    \/ \E fill \in FormFills : ClickSave(fill)
    \/ Back
    \/ Forward
    \/ ClickCancel
    \/ \E url \in OpenableUrls : OpenUrl(url)
    \/ ActionDone
    \/ CompleteNavigation

Spec == Init /\ [][Next]_vars

-----------------------------------------------------------------------------
(* The route handlers invoked directly, on requests drawn from bounded sets *)

\* A contact with every optional field set.
SeedContact ==
    [id |-> Id(1), first |-> <<"A", "b">>, last |-> <<"C">>, twitter |-> <<"a">>,
     avatar |-> <<"b">>, notes |-> <<"c">>, favorite |-> FALSE]

SeedStores == {NoStore, [id \in {Id(1)} |-> SeedContact]}

\* The direct invocations work on stores of up to one contact more than a session creates.
MaxStored == MaxContacts + 1

HandlerParams ==
    {NoParams, [contactId |-> Empty]}
    \cup {[contactId |-> Id(n)] : n \in 1..(MaxStored + 1)}

FormEntries == {[k |-> "first", v |-> <<"a">>], [k |-> "first", v |-> <<"B", "c">>],
                [k |-> "last", v |-> <<"a">>]}

FormDatas == {<<>>} \cup {<<e>> : e \in FormEntries}
             \cup {<<e1, e2>> : e1 \in FormEntries, e2 \in FormEntries}

Searches ==
    {<<>>, <<[k |-> "x", v |-> <<"a">>]>>,
     <<[k |-> "q", v |-> <<"b">>], [k |-> "q", v |-> <<"a">>]>>}
    \cup {SearchOf(t) : t \in {Empty, <<"a">>, <<"A">>, <<"b">>, <<"B", "C">>, <<"a", "c">>}}

HandlerInit ==
    /\ store \in SeedStores
    /\ location = Url(IndexPath, <<>>)
    /\ loaderData = rootLoader(store, Url(IndexPath, <<>>))
    /\ leaf = leafLoader(store, Url(IndexPath, <<>>))
    /\ navigation = Idle
    /\ isRevalidationRequired = FALSE
    /\ field = Empty
    /\ history = <<Url(IndexPath, <<>>)>>
    /\ idx = 1
    /\ dirty = FALSE
    /\ typing = "off"
    /\ preSearch = {}
    /\ last = NoCall

CallRootAction ==
    /\ Count(store) < MaxStored
    /\ store' = rootAction(store).store
    /\ last' = [op |-> "rootAction", url |-> {}, params |-> NoParams, formData |-> <<>>,
                before |-> store, result |-> rootAction(store)]
    /\ UNCHANGED clientVars

CallEditAction(params, formData) ==
    /\ store' = editAction(store, params, formData).store
    /\ last' = [op |-> "editAction", url |-> {}, params |-> params,
                formData |-> formData, before |-> store,
                result |-> editAction(store, params, formData)]
    /\ UNCHANGED clientVars

CallRootLoader(url) ==
    /\ last' = [op |-> "rootLoader", url |-> {url}, params |-> NoParams,
                formData |-> <<>>, before |-> store, result |-> rootLoader(store, url)]
    /\ UNCHANGED <<store, clientVars>>

CallEditLoader(params) ==
    /\ last' = [op |-> "editLoader", url |-> {}, params |-> params, formData |-> <<>>,
                before |-> store, result |-> editLoader(store, params)]
    /\ UNCHANGED <<store, clientVars>>

HandlerNext ==
    \/ CallRootAction
    \/ \E params \in HandlerParams, formData \in FormDatas :
          CallEditAction(params, formData)
    \/ \E search \in Searches : CallRootLoader(Url(IndexPath, search))
    \/ \E params \in HandlerParams : CallEditLoader(params)

HandlerSpec == HandlerInit /\ [][HandlerNext]_vars

-----------------------------------------------------------------------------
(* Claims on the client (Spec) *)

C2_ResyncOnEveryCompletion ==
    [][(navigation.state = "loading" /\ navigation'.state = "idle" /\ field' # Null)
           => field' = OrEmpty(loaderData'.q)]_vars

\* C3 (as stated): from an absent committed q, only the first keystroke of a run of
\* search keystrokes pushes; every later keystroke's navigation replaces.
C3_LaterKeystrokesReplace ==
    [][(typing = "pending" /\ typing' = "pending")
           => navigation'.historyAction = "REPLACE"]_vars

\* C3 (amended): from an absent committed q, a run of search keystrokes pushes exactly
\* one history entry, at the first completion of the run and for the navigation then
\* pending; keystrokes before that completion leave the history alone, and every
\* navigation of the run completing later replaces the current entry and adds none.
C3_OnePushPerTypingRun ==
    [][typing' # "off" =>
           /\ typing' = "pending" => history' = history /\ idx' = idx
           /\ (typing = "pending" /\ typing' = "pushed") =>
                 /\ history' = pushState(history, idx, Only(navigation.location))
                 /\ Only(navigation.location) = Url(IndexPath, SearchOf(field))
           /\ (typing = "pushed" /\ typing' = "pushed") =>
                 /\ Len(history') = Len(history)
                 /\ idx' = idx
                 /\ \A i \in 1..Len(history) : i # idx => history'[i] = history[i]]_vars

\* C3 witness: the whole search word was typed from an absent q and its navigation is done.
C3_TypedSearchWord ==
    /\ typing = "pushed"
    /\ navigation.state = "idle"
    /\ field = SearchWord
    /\ history[idx] = Url(IndexPath, SearchOf(SearchWord))
    /\ idx > 1

\* C4: the sidebar list and the committed q come from the same completed root-loader
\* read: q is that of the committed URL, never of a pending one, every listed contact
\* matches it, and the list is the store's listing filtered by it unless a write since
\* that read awaits revalidation.
C4_ListAndQFromSameRead ==
    /\ loaderData.q = SearchGet(location.search, "q")
    /\ Truthy(loaderData.q) =>
          \A i \in 1..Len(loaderData.contacts) :
              Matches(loaderData.contacts[i], loaderData.q)
    /\ ~isRevalidationRequired =>
          loaderData.contacts = getContacts(store, loaderData.q)

\* C4 witness: a search navigation is pending while the list shown is filtered by another q.
C4_PendingOtherSearch ==
    /\ navigation.state = "loading"
    /\ Truthy(loaderData.q)
    /\ Len(loaderData.contacts) > 0
    /\ SearchGet(Only(navigation.location).search, "q") # loaderData.q

-----------------------------------------------------------------------------
(* Claims on the route handlers (HandlerSpec) *)

\* case-insensitive containment, letter by letter
ContainsIgnoringCase(name, query) ==
    /\ name # Null
    /\ \E from \in 1..(Len(name) + 1) :
          /\ from + Len(query) - 1 <= Len(name)
          /\ \A j \in 1..Len(query) : Lower(name[from + j - 1]) = Lower(query[j])

\* C6: the update action on an existing contact X changes only the fields named in
\* the submitted form: X's other fields and every other contact keep their values,
\* and the result is a redirect to /contacts/<X.id>.
C6_UpdateChangesOnlySubmittedFields ==
    (/\ last.op = "editAction"
     /\ ParamTruthy(last.params, "contactId")
     /\ last.params.contactId \in DOMAIN last.before)
    => LET X == last.params.contactId
           named == {last.formData[i].k : i \in 1..Len(last.formData)}
       IN  /\ last.result.kind = "redirect"
           /\ last.result.to = {Url(DetailPath(X), <<>>)}
           /\ DOMAIN store = DOMAIN last.before
           /\ \A id \in DOMAIN last.before \ {X} : store[id] = last.before[id]
           /\ DOMAIN store[X] = DOMAIN last.before[X]
           /\ \A key \in DOMAIN last.before[X] \ named :
                 store[X][key] = last.before[X][key]

\* C6 witness: only the first name of a fully filled contact was submitted, beside another contact.
C6_FirstNameOnly ==
    /\ last.op = "editAction"
    /\ last.params = [contactId |-> Id(1)]
    /\ last.formData = <<[k |-> "first", v |-> <<"a">>]>>
    /\ Count(last.before) = 2
    /\ last.before[Id(1)] = SeedContact
    /\ store[Id(1)].first = <<"a">>

\* C7: a run of the create action adds exactly one contact, under an identifier no
\* existing contact uses, with every optional field unset and favorite = false, leaves
\* the existing contacts unchanged and redirects to /contacts/<new-id>/edit; loading
\* <new-id> right afterwards yields that empty record.
C7_CreateAddsOneEmptyContact ==
    last.op = "rootAction"
    => \E new \in DOMAIN store \ DOMAIN last.before :
           /\ DOMAIN store = DOMAIN last.before \cup {new}
           /\ \A id \in DOMAIN last.before : store[id] = last.before[id]
           /\ store[new].id = new
           /\ \A key \in FieldNames : store[new][key] = Null
           /\ store[new].favorite = FALSE
           /\ last.result.kind = "redirect"
           /\ last.result.to = {Url(EditPath(new), <<>>)}
           /\ editLoader(store, [contactId |-> new]).kind = "data"
           /\ editLoader(store, [contactId |-> new]).contact = {store[new]}

\* C7 witness: a contact was created beside an existing one.
C7_CreatedBesideExisting ==
    /\ last.op = "rootAction"
    /\ Count(last.before) = 1
    /\ Count(store) = 2

\* C8: for every request URL the root loader returns exactly the contacts whose first
\* or last name contains the URL's q case-insensitively (all of them when q is absent
\* or empty), echoes the q it read (null when absent, the empty string when present
\* but empty) and leaves the store unchanged.
C8_RootLoaderFiltersAndEchoes ==
    last.op = "rootLoader"
    => LET search == Only(last.url).search
           at == {i \in 1..Len(search) : search[i].k = "q"}
           q == IF at = {} THEN Null
                ELSE search[CHOOSE i \in at : \A j \in at : i <= j].v
           wanted == {id \in DOMAIN last.before :
                         \/ q = Null
                         \/ q = Empty
                         \/ ContainsIgnoringCase(last.before[id].first, q)
                         \/ ContainsIgnoringCase(last.before[id].last, q)}
           listed == last.result.contacts
       IN  /\ last.result.q = q
           /\ {listed[i] : i \in 1..Len(listed)} = {last.before[id] : id \in wanted}
           /\ Len(listed) = Cardinality(wanted)
           /\ store = last.before

\* C8 witness: q matched one of two contacts, through a letter of the other case.
C8_FilteredOneOfTwo ==
    /\ last.op = "rootLoader"
    /\ last.result.q = <<"A">>
    /\ Count(last.before) = 2
    /\ Len(last.result.contacts) = 1
    /\ last.result.contacts[1].last = <<"a">>

\* C9: for an identifier not in the store the contact loader yields a 404 response
\* and no loader data, for one in the store that contact's full record; it leaves the
\* store unchanged and further requests are still served.
C9_ContactLoaderNotFound ==
    (last.op = "editLoader" /\ ParamTruthy(last.params, "contactId"))
    => /\ last.params.contactId \notin DOMAIN last.before =>
              /\ last.result.kind = "response"
              /\ last.result.status = {404}
              /\ last.result.contact = {}
       /\ last.params.contactId \in DOMAIN last.before =>
              /\ last.result.kind = "data"
              /\ last.result.contact = {last.before[last.params.contactId]}
       /\ store = last.before
       /\ ENABLED HandlerNext

\* C9 witness: the loader missed on a non-empty store.
C9_MissedContact ==
    /\ last.op = "editLoader"
    /\ last.result.kind = "response"
    /\ Count(store) > 0

\* C10: the update action invoked with an absent or empty contactId fails its
\* precondition: no contact is created, updated or deleted and no redirect is returned.
C10_UpdateRequiresContactId ==
    (last.op = "editAction" /\ ~ParamTruthy(last.params, "contactId"))
    => /\ last.result.kind = "invariant"
       /\ last.result.to = {}
       /\ store = last.before

\* C10 witness: the action ran without a contactId, on a form and a non-empty store.
C10_CalledWithoutContactId ==
    /\ last.op = "editAction"
    /\ last.params = NoParams
    /\ last.formData # <<>>
    /\ Count(store) > 0

-----------------------------------------------------------------------------
(* Further claims on the client (Spec) *)

\* C11: a keystroke-triggered search navigation pushes a history entry if and only if
\* the q committed by the last completed navigation is absent at the keystroke; for any
\* committed string, the empty string of a cleared search box included, it replaces
\* the current entry.
C11_PushIffCommittedQAbsent ==
    [][(field' # field /\ navigation'.state = "loading")
           => /\ navigation'.location = {Url(IndexPath, SearchOf(field'))}
              /\ navigation'.historyAction =
                     IF loaderData.q = Null THEN "PUSH" ELSE "REPLACE"]_vars

\* C11 witness: a keystroke typed over a committed empty q started a replacing navigation.
C11_KeystrokeAfterClearing ==
    /\ loaderData.q = Empty
    /\ navigation.state = "loading"
    /\ navigation.historyAction = "REPLACE"
    /\ dirty
    /\ navigation.location = {Url(IndexPath, SearchOf(field))}

\* C12 (as stated): from a view whose committed q is absent, after a run of search
\* keystrokes whose last navigation has completed, the entry one back step away is a
\* URL with no q.
C12_BackLeadsToUrlWithoutQ ==
    (typing = "pushed" /\ navigation.state = "idle")
        => (idx > 1 /\ SearchGet(history[idx - 1].search, "q") = Null)

\* C12 (amended): after such a run a single back step returns to the history entry
\* that was the browser's current one at the first keystroke; if no navigation was
\* pending at that keystroke, that entry is the pre-search view's: a URL with no q,
\* whose root loader data is the unfiltered list.
C12_BackReturnsToEntryOfFirstKeystroke ==
    /\ [](typing # "off" => preSearch # {})
    /\ []((typing = "pushed" /\ navigation.state = "idle") =>
             /\ idx > 1
             /\ history[idx - 1] = Only(preSearch).entry
             /\ Only(preSearch).atRest =>
                   /\ rootLoader(store, history[idx - 1]).q = Null
                   /\ rootLoader(store, history[idx - 1]).contacts = Listing(store))
    /\ [][(typing = "pushed" /\ navigation.state = "idle"
                /\ idx' = idx - 1 /\ history' = history)
             => navigation' = Loading(Only(preSearch).entry, "POP")]_vars

\* C12 witness: two keystrokes typed at rest on a contact's view are committed, the
\* later one over the entry of the first.
C12_SearchedFromContactView ==
    /\ typing = "pushed"
    /\ navigation.state = "idle"
    /\ Only(preSearch).atRest
    /\ Only(preSearch).entry.path.view # "index"
    /\ history[idx] = Url(IndexPath, SearchOf(SearchWord))

\* C13 (as stated): the search field is marked "in progress" exactly while a
\* read-only navigation is pending whose target query string has a non-empty q.
C13_MarkedIffReadPendingWithNonEmptyQ ==
    field # Null =>
        (searchFieldClassName = "loading" <=>
            /\ navigation.state = "loading"
            /\ Truthy(SearchGet(Only(navigation.location).search, "q")))

\* C13 (amended): the search field is marked "in progress" (loading class, spinner
\* shown) exactly while a navigation, a read or a write submission, is pending whose
\* target query string has a q parameter, empty or not; it is not marked when no
\* navigation is pending or the pending target has no q parameter, and a marked
\* field still takes keystrokes.
C13_MarkedIffPendingTargetHasQ ==
    field # Null =>
        LET pendingWithQ ==
                /\ navigation.state \in {"loading", "submitting"}
                /\ SearchHas(Only(navigation.location).search, "q")
        IN  /\ searchFieldClassName = "loading" <=> pendingWithQ
            /\ spinnerHidden <=> ~pendingWithQ
            /\ pendingWithQ => ENABLED (\E text \in Texts : Keystroke(text))

\* C13 witness: the field has been cleared and the navigation to "/?q=" is pending.
C13_ClearingTheFieldPending ==
    /\ navigation.state = "loading"
    /\ Only(navigation.location) = Url(IndexPath, SearchOf(Empty))
    /\ field = Empty
    /\ searchFieldClassName = "loading"
    /\ ~spinnerHidden

\* C14 (as stated): the detail pane is marked "loading" during any pending
\* navigation, read or write submission, whose target view differs from the current
\* one and which is not a search navigation; it is not marked when the client is
\* idle or the pending navigation is a search navigation.
C14_MarkedDuringAnyPendingNavigation ==
    field # Null =>
        /\ (/\ navigation.state \in {"loading", "submitting"}
            /\ Only(navigation.location).path # location.path
            /\ ~searching) => detailClassName = "loading"
        /\ (navigation.state = "idle" \/ searching) => detailClassName = ""

\* C14 (amended): the detail pane is marked "loading" exactly while a navigation is
\* in its loading phase (a pending read, or the redirect that follows the action of
\* a write submission) and its target query string has no q parameter, whether or
\* not the target view differs from the current one; it is not marked when the
\* client is idle, while the action of a submission is still running, or when the
\* pending target has a q parameter.
C14_MarkedWhileLoadingWithoutQ ==
    field # Null =>
        /\ detailClassName = "loading" <=>
               /\ navigation.state = "loading"
               /\ ~SearchHas(Only(navigation.location).search, "q")
        /\ navigation.state \in {"idle", "submitting"} => detailClassName = ""
        /\ searchFieldClassName = "loading" => detailClassName = ""

\* C14 witness: the redirect of a served submission is pending towards another view
\* and the pane is marked.
C14_RedirectAfterSubmissionPending ==
    /\ field # Null
    /\ navigation.state = "loading"
    /\ isRevalidationRequired
    /\ Only(navigation.location).path # location.path
    /\ detailClassName = "loading"

C17_ContactLinkLeavesSearch ==
    [][/\ (\E id \in SidebarIds : ClickContact(id))
            => \E id \in SidebarIds :
                   navigation'.location = {Url(DetailPath(id), <<>>)}
       /\ (/\ navigation.state = "loading"
           /\ navigation.historyAction \in {"PUSH", "REPLACE"}
           /\ ~isRevalidationRequired
           /\ Only(navigation.location).path.view = "detail"
           /\ CompleteNavigation)
            => /\ loaderData'.q = Null
               /\ loaderData'.contacts = Listing(store')
               /\ field' = Empty
               /\ ~replace(loaderData'.q)]_vars

-----------------------------------------------------------------------------
(* Create and update actions called with form mappings of arbitrary keys *)

\* Object.fromEntries(formData) takes whatever keys the request carries.
ArbitraryEntries == {[k |-> "id", v |-> Id(2)], [k |-> "first", v |-> <<"a">>],
                     [k |-> "nickname", v |-> <<"b">>]}

ArbitraryForms == {<<e>> : e \in ArbitraryEntries}
                  \cup {<<e1, e2>> : e1 \in ArbitraryEntries, e2 \in ArbitraryEntries}

UpdateNext ==
    \/ CallRootAction
    \/ \E params \in HandlerParams, formData \in ArbitraryForms :
          CallEditAction(params, formData)

UpdateSpec == HandlerInit /\ [][UpdateNext]_vars

\* C16: a contact's identifier never changes after creation: whatever create and
\* update actions have run, arbitrary submitted keys included, every stored contact
\* still carries the identifier it was created (and is stored) under, and the
\* identifiers are pairwise distinct.
C16_IdentifierNeverChanges ==
    /\ \A id \in DOMAIN store : store[id].id = id
    /\ \A id1, id2 \in DOMAIN store : store[id1].id = store[id2].id => id1 = id2

====
